---- MODULE Spec2Model ----
(***************************************************************************)
(* Inference bridge (agent-cvm/inference-bridge): the forwarding engine of *)
(* main.py and inference.py over the process-wide configuration of         *)
(* config.py.  Strings that the code cuts or joins (upstream lines, SSE    *)
(* frames) are sequences of one-character strings; delays are in           *)
(* milliseconds.                                                           *)
(***************************************************************************)
EXTENDS Integers, Sequences, FiniteSets, TLC

\* ------------------------------------------------------------------ bounds
NumCalls == 2          \* concurrent forwarding calls
MaxRequests == 4       \* upstream requests issued by all calls together
MaxLines == 3          \* upstream lines read by streaming calls
MaxReconfigs == 1
MaxB64Len == 4      \* /internal/config requests

Calls == 1 .. NumCalls

\* ------------------------------------------------------------ input domains
None == "None"

ApiKeys == {"", "k1", "k2"}
BackendUrls == {"u1", "u2"}
ModelNames == {"m1", "m2"}

LoopbackHosts == {"127.0.0.1", "::1", "localhost"}
ClientHosts == LoopbackHosts \cup {"10.0.0.5", None}

\* InternalConfigUpdate: every field is optional (None when absent).
InternalConfigUpdate ==
    [llm_api_key : ApiKeys \cup {None},
     llm_backend_url : BackendUrls \cup {None},
     model_name : ModelNames \cup {None}]

\* Reconfigurations that run between the steps of forwarding calls.
ConcurrentUpdates ==
    {[llm_api_key |-> "k2", llm_backend_url |-> "u2", model_name |-> "m2"]}

\* Base64TranscriptionRequest.audio_data: strings of at most MaxB64Len
\* characters over two alphabet characters, the padding character, an ASCII
\* character outside the alphabet and a character outside ASCII.
Base64Alphabet == {"A", "/"}
NonAscii == {"~e"}
AudioChars == Base64Alphabet \cup {"=", "!"} \cup NonAscii
AudioData == UNION {[1 .. n -> AudioChars] : n \in 0 .. MaxB64Len}

STT_MODEL == "whisper-small-v3-turbo"

\* ChatCompletionRequest.model, .tools and .tool_choice as clients may send
\* them; a present tools list may be empty.
RequestModels == {None, "m2"}

NoTools == [present |-> FALSE, items |-> <<>>]

RequestTools ==
    {NoTools, [present |-> TRUE, items |-> <<>>],
     [present |-> TRUE, items |-> <<"t1">>]}

ToolChoices == {None, "", "required"}

\* messages, temperature and max_tokens of a chat and of a vision request.
ChatInput ==
    [messages |-> "messages", temperature |-> "0.7", max_tokens |-> "2048"]

VisionInput ==
    [messages |-> "parts", temperature |-> "0.3", max_tokens |-> "2048"]

\* What upstream may answer to one request.
UpstreamResponses ==
    {[status |-> 200, body |-> "b1"], [status |-> 200, body |-> "b2"],
     [status |-> 400, body |-> "e400"], [status |-> 404, body |-> "e404"],
     [status |-> 500, body |-> "e500"]}

\* Heads of upstream streaming responses (the body follows line by line).
UpstreamHeads ==
    {[status |-> 200, body |-> None], [status |-> 400, body |-> None],
     [status |-> 500, body |-> None]}

\* Lines an upstream event stream may carry (aiter_lines strips line ends).
LineDataA == <<"d", "a", "t", "a", ":", " ", "A">>
LineDataB == <<"d", "a", "t", "a", ":", " ", "B">>
LineComment == <<":", " ", "c">>
LineBlank == <<>>
LineNoSpace == <<"d", "a", "t", "a", ":", "A">>
UpstreamLines == {LineDataA, LineDataB, LineComment, LineBlank, LineNoSpace}

\* ------------------------------------------------------------------- state
VARIABLES
    config,        \* config.LLM_API_KEY, LLM_BACKEND_URL, MODEL_NAME
    call,          \* per forwarding call: position, locals, what it sent and got
    lastUpdate,    \* the last /internal/config exchange
    reconfigs,     \* number of /internal/config requests so far
    http_client    \* inference._http_client: clients created so far, the last
                   \* being the current one (none when 0), and its is_closed

vars == <<config, call, lastUpdate, reconfigs, http_client>>

\* config.py defaults (the environment may override them at startup).
DefaultConfig ==
    [LLM_API_KEY |-> "k1", LLM_BACKEND_URL |-> "u1", MODEL_NAME |-> "m1"]

NoConfig == [LLM_API_KEY |-> None, LLM_BACKEND_URL |-> None, MODEL_NAME |-> None]
NoPayload ==
    [model |-> None, messages |-> None, temperature |-> None,
     max_tokens |-> None, stream |-> FALSE]
NoResult == [ok |-> FALSE, body |-> None, detail |-> <<>>]

\* A forwarding call that has not been requested yet.
IdleCall ==
    [pc |-> "idle", kind |-> None, model |-> None, tools |-> NoTools,
     tool_choice |-> None, audio_data |-> <<>>, client |-> 0,
     payload |-> NoPayload,
     attempt |-> 0, entry |-> NoConfig, requests |-> <<>>, responses |-> <<>>,
     delays |-> <<>>, lines |-> <<>>, delivered |-> <<>>, http |-> 0,
     result |-> NoResult]

NoUpdate ==
    [host |-> None, body |-> [llm_api_key |-> None, llm_backend_url |-> None,
                              model_name |-> None],
     before |-> NoConfig, status |-> 0, updated |-> <<>>]

RECURSIVE SumUpTo(_, _)
SumUpTo(f, n) == IF n = 0 THEN 0 ELSE f[n] + SumUpTo(f, n - 1)

\* Upstream requests issued and upstream lines read so far, over all calls.
TotalRequests == SumUpTo([c \in Calls |-> Len(call[c].requests)], NumCalls)
TotalLines == SumUpTo([c \in Calls |-> Len(call[c].lines)], NumCalls)

\* Calls are numbered in the order in which their requests arrive.
Arrives(c) ==
    /\ call[c].pc = "idle"
    /\ \A d \in Calls : d < c => call[d].pc # "idle"

Init ==
    /\ config = DefaultConfig
    /\ call = [c \in Calls |-> IdleCall]
    /\ lastUpdate = NoUpdate
    /\ reconfigs = 0
    /\ http_client = [created |-> 0, is_closed |-> FALSE]

\* --------------------------------------------------------- inference.py
max_retries == 2
BackoffStepMs == 500

\* _get_client(): if _http_client is None or _http_client.is_closed, a new
\* AsyncClient replaces it; the (possibly new) module-level client is returned.
\* A client is identified by its rank of creation.
NeedsClient_Always(hc) == TRUE

NeedsClient(hc) == hc.created = 0 \/ hc.is_closed

GetClient(hc) ==
    IF NeedsClient(hc)
    THEN [created |-> hc.created + 1, is_closed |-> FALSE]
    ELSE hc

\* _headers(): Authorization only when the API key is non-empty.
Headers_ImportedKey(cfg) ==
    IF DefaultConfig.LLM_API_KEY # ""
    THEN [ContentType |-> "application/json",
          Authorization |-> <<"Bearer ", DefaultConfig.LLM_API_KEY>>]
    ELSE [ContentType |-> "application/json"]

Headers(cfg) ==
    IF cfg.LLM_API_KEY # ""
    THEN [ContentType |-> "application/json",
          Authorization |-> <<"Bearer ", cfg.LLM_API_KEY>>]
    ELSE [ContentType |-> "application/json"]

\* payload of chat_completion / stream_chat_completion: model or config.MODEL_NAME.
Payload(cfg, model, input, stream) ==
    [model |-> IF model # None THEN model ELSE cfg.MODEL_NAME,
     messages |-> input.messages, temperature |-> input.temperature,
     max_tokens |-> input.max_tokens, stream |-> stream]

\* if tools: payload["tools"] = tools; payload["tool_choice"] = tool_choice or "auto"
WithTools(payload, tools, tool_choice) ==
    IF tools.present /\ tools.items # <<>>
    THEN payload @@ [tools |-> tools.items,
                     tool_choice |-> IF tool_choice # None /\ tool_choice # ""
                                     THEN tool_choice ELSE "auto"]
    ELSE payload

\* client.post / client.stream arguments, evaluated when the request is issued.
PostRequest(cfg, payload) ==
    [url |-> <<cfg.LLM_BACKEND_URL, "/chat/completions">>,
     headers |-> Headers(cfg), json |-> payload]

\* response.raise_for_status(): raises unless the status is a success (2xx).
RaisesForStatus(status) == ~(200 <= status /\ status < 300)

\* if response.status_code == 400 and attempt < max_retries
Retryable_OffByOne(status, attempt) == status = 400 /\ attempt <= max_retries

Retryable_AnyError(status, attempt) == status >= 400 /\ attempt < max_retries

Retryable_Never(status, attempt) == FALSE

Retryable_AnyStatus(status, attempt) == attempt < max_retries

Retryable(status, attempt) == status = 400 /\ attempt < max_retries

\* asyncio.sleep(0.5 * (attempt + 1)), in milliseconds.
Backoff_ZeroBased(attempt) == BackoffStepMs * attempt

Backoff(attempt) == BackoffStepMs * (attempt + 1)

StartsWith(line, prefix) ==
    /\ Len(line) >= Len(prefix)
    /\ SubSeq(line, 1, Len(prefix)) = prefix

DataPrefix == <<"d", "a", "t", "a", ":", " ">>

\* line[6:]
Chunk_KeepsSpace(line) == SubSeq(line, 6, Len(line))

Chunk(line) == SubSeq(line, 7, Len(line))

\* --------------------------------------------------------------- main.py
\* f"data: {chunk}\n\n"
Frame(chunk) == <<"d", "a", "t", "a", ":", " ">> \o chunk \o <<"\n", "\n">>

DoneFrame ==
    <<"d", "a", "t", "a", ":", " ", "[", "D", "O", "N", "E", "]", "\n", "\n">>

ErrorPrefix(kind) ==
    IF kind = "vision" THEN "Vision LLM backend error: "
    ELSE IF kind = "base64" THEN "Transcription error: "
    ELSE "LLM backend error: "

\* except Exception as e: raise HTTPException(status_code=502, detail=...)
Fail502(cl, what) ==
    [cl EXCEPT !.pc = "done", !.http = 502,
               !.result = [ok |-> FALSE, body |-> None,
                           detail |-> <<ErrorPrefix(cl.kind), what>>]]

\* chat_completion up to its first await: payload, then the first client.post.
EnterChatCompletion(c, kind, model, input, tools, tool_choice) ==
    LET payload ==
            WithTools(Payload(config, model, input, FALSE), tools, tool_choice) IN
    /\ Arrives(c)
    /\ TotalRequests < MaxRequests
    /\ http_client' = GetClient(http_client)
    /\ call' = [call EXCEPT ![c] =
                  [@ EXCEPT !.pc = "awaiting", !.kind = kind, !.model = model,
                            !.tools = tools, !.tool_choice = tool_choice,
                            !.client = http_client'.created,
                            !.payload = payload, !.attempt = 0, !.entry = config,
                            !.requests = <<PostRequest(config, payload)>>]]
    /\ UNCHANGED <<config, lastUpdate, reconfigs>>

\* tools = None; if request.tools: tools = [t.model_dump() for t in request.tools]
DumpTools(tools) ==
    IF tools.present /\ tools.items # <<>> THEN tools ELSE NoTools

\* POST /v1/chat/completions with stream = false.
CreateChatCompletion(c, model, tools, tool_choice) ==
    EnterChatCompletion(c, "chat", model, ChatInput, DumpTools(tools), tool_choice)

\* POST /v1/vision/completions: chat_completion without tools.
CreateVisionCompletion(c, model) ==
    EnterChatCompletion(c, "vision", model, VisionInput, NoTools, None)

\* The awaited client.post of chat_completion returns response r.
ChatResponse(c, r) ==
    LET cl == call[c]
        got == [cl EXCEPT !.responses = Append(@, r)] IN
    /\ cl.pc = "awaiting"
    /\ call' = [call EXCEPT ![c] =
          IF Retryable(r.status, cl.attempt)
          THEN [got EXCEPT !.pc = "sleeping",
                           !.delays = Append(@, Backoff(cl.attempt))]
          ELSE IF RaisesForStatus(r.status)
          THEN Fail502(got, <<"HTTPStatusError", r.status>>)
          ELSE [got EXCEPT !.pc = "done", !.http = 200,
                           !.result = [ok |-> TRUE, body |-> r.body,
                                       detail |-> <<>>]]]
    /\ UNCHANGED <<config, lastUpdate, reconfigs, http_client>>

\* The awaited client.post raises (connect error, timeout): no response.
ChatTransportError(c) ==
    /\ call[c].pc = "awaiting"
    /\ call' = [call EXCEPT ![c] = Fail502(@, <<"TransportError", 0>>)]
    /\ UNCHANGED <<config, lastUpdate, reconfigs, http_client>>

\* asyncio.sleep returns; `continue` starts the next iteration of the loop,
\* or leaves the loop when range(max_retries + 1) is exhausted.
ChatRetry_RebuildsPayload(c) ==
    LET cl == call[c]
        next == cl.attempt + 1
        input == IF cl.kind = "vision" THEN VisionInput ELSE ChatInput
        payload ==
            WithTools(Payload(config, cl.model, input, FALSE),
                      cl.tools, cl.tool_choice) IN
    /\ cl.pc = "sleeping"
    /\ TotalRequests < MaxRequests
    /\ call' = [call EXCEPT ![c] =
          IF next < max_retries + 1
          THEN [cl EXCEPT !.pc = "awaiting", !.attempt = next,
                          !.payload = payload,
                          !.requests = Append(@, PostRequest(config, payload))]
          ELSE Fail502(cl, <<"Max retries exceeded", 0>>)]
    /\ UNCHANGED <<config, lastUpdate, reconfigs, http_client>>

ChatRetry(c) ==
    LET cl == call[c]
        next == cl.attempt + 1 IN
    /\ cl.pc = "sleeping"
    /\ TotalRequests < MaxRequests
    /\ call' = [call EXCEPT ![c] =
          IF next < max_retries + 1
          THEN [cl EXCEPT !.pc = "awaiting", !.attempt = next,
                          !.requests = Append(@, PostRequest(config, cl.payload))]
          ELSE Fail502(cl, <<"Max retries exceeded", 0>>)]
    /\ UNCHANGED <<config, lastUpdate, reconfigs, http_client>>

\* base64.b64decode(s) with its default validate = False: a str that is not
\* ASCII is refused; characters outside the alphabet are discarded; padding
\* that completes a quantum ends the decoding; the input is refused only when
\* it ends inside a quantum.
Sextet(ch) == IF ch = "A" THEN 0 ELSE 63

Decoded(bytes) == [ok |-> TRUE, bytes |-> bytes, error |-> ""]
DecodeError(message) == [ok |-> FALSE, bytes |-> <<>>, error |-> message]

RECURSIVE a2b_base64(_, _, _, _, _, _)
a2b_base64(s, i, quad_pos, leftchar, pads, out) ==
    IF i > Len(s)
    THEN IF quad_pos = 0 THEN Decoded(out)
         ELSE IF quad_pos = 1
         THEN DecodeError("Invalid base64-encoded string")
         ELSE DecodeError("Incorrect padding")
    ELSE IF s[i] = "="
    THEN IF quad_pos >= 2 /\ quad_pos + pads + 1 >= 4
         THEN Decoded(out)
         ELSE a2b_base64(s, i + 1, quad_pos, leftchar,
                         IF quad_pos >= 2 THEN pads + 1 ELSE pads, out)
    ELSE IF s[i] \notin Base64Alphabet
    THEN a2b_base64(s, i + 1, quad_pos, leftchar, pads, out)
    ELSE LET ch == Sextet(s[i]) IN
         IF quad_pos = 0
         THEN a2b_base64(s, i + 1, 1, ch, 0, out)
         ELSE IF quad_pos = 1
         THEN a2b_base64(s, i + 1, 2, ch % 16, 0,
                         Append(out, leftchar * 4 + ch \div 16))
         ELSE IF quad_pos = 2
         THEN a2b_base64(s, i + 1, 3, ch % 4, 0,
                         Append(out, leftchar * 16 + ch \div 4))
         ELSE a2b_base64(s, i + 1, 0, 0, 0, Append(out, leftchar * 64 + ch))

b64decode(s) ==
    IF \E i \in 1 .. Len(s) : s[i] \in NonAscii
    THEN DecodeError("string argument should contain only ASCII characters")
    ELSE a2b_base64(s, 1, 0, 0, 0, <<>>)

\* audio_transcription up to its await: headers, multipart form, client.post.
TranscriptionRequest(cfg, audio_bytes) ==
    [url |-> <<cfg.LLM_BACKEND_URL, "/audio/transcriptions">>,
     headers |-> IF cfg.LLM_API_KEY # ""
                 THEN [Authorization |-> <<"Bearer ", cfg.LLM_API_KEY>>]
                 ELSE <<>>,
     files |-> <<"audio.ogg", audio_bytes, "application/octet-stream">>,
     data |-> [model |-> STT_MODEL, response_format |-> "json"]]

\* POST /v1/audio/transcriptions/base64 up to its first await, or up to the
\* exception raised by b64decode.
CreateAudioTranscriptionBase64(c, audio_data) ==
    LET cl == [call[c] EXCEPT !.kind = "base64", !.audio_data = audio_data,
                              !.entry = config]
        audio == b64decode(audio_data) IN
    /\ Arrives(c)
    /\ TotalRequests < MaxRequests
    /\ http_client' = IF audio.ok THEN GetClient(http_client) ELSE http_client
    /\ call' = [call EXCEPT ![c] =
          IF ~audio.ok
          THEN Fail502(cl, <<audio.error, 0>>)
          ELSE [cl EXCEPT !.pc = "transcribing",
                          !.client = http_client'.created,
                          !.requests =
                              <<TranscriptionRequest(config, audio.bytes)>>]]
    /\ UNCHANGED <<config, lastUpdate, reconfigs>>

\* The awaited client.post of audio_transcription returns response r.
TranscriptionResponse(c, r) ==
    LET cl == call[c]
        got == [cl EXCEPT !.responses = Append(@, r)] IN
    /\ cl.pc = "transcribing"
    /\ call' = [call EXCEPT ![c] =
          IF RaisesForStatus(r.status)
          THEN Fail502(got, <<"HTTPStatusError", r.status>>)
          ELSE [got EXCEPT !.pc = "done", !.http = 200,
                           !.result = [ok |-> TRUE, body |-> r.body,
                                       detail |-> <<>>]]]
    /\ UNCHANGED <<config, lastUpdate, reconfigs, http_client>>

\* The awaited client.post of audio_transcription raises.
TranscriptionTransportError(c) ==
    /\ call[c].pc = "transcribing"
    /\ call' = [call EXCEPT ![c] = Fail502(@, <<"TransportError", 0>>)]
    /\ UNCHANGED <<config, lastUpdate, reconfigs, http_client>>

\* POST /v1/chat/completions with stream = true: the handler returns the
\* StreamingResponse around the generator, which has not run yet.
CreateChatCompletionStream(c, model, tools, tool_choice) ==
    /\ Arrives(c)
    /\ call' = [call EXCEPT ![c] =
                  [@ EXCEPT !.pc = "created", !.kind = "stream", !.model = model,
                            !.tools = DumpTools(tools),
                            !.tool_choice = tool_choice, !.entry = config, !.http = 200]]
    /\ UNCHANGED <<config, lastUpdate, reconfigs, http_client>>

\* First pull of the generator: stream_chat_completion up to client.stream.
StreamOpen(c) ==
    LET cl == call[c]
        payload == Payload(config, cl.model, ChatInput, TRUE) IN
    /\ cl.pc = "created"
    /\ TotalRequests < MaxRequests
    /\ http_client' = GetClient(http_client)
    /\ call' = [call EXCEPT ![c] =
                  [cl EXCEPT !.pc = "open", !.payload = payload,
                             !.client = http_client'.created,
                             !.requests = <<PostRequest(config, payload)>>]]
    /\ UNCHANGED <<config, lastUpdate, reconfigs>>

\* The response head arrives: response.raise_for_status().
StreamStatus_Retries400(c, r) ==
    LET cl == call[c] IN
    /\ cl.pc = "open"
    /\ call' = [call EXCEPT ![c] =
          IF r.status = 400 /\ Len(cl.requests) <= max_retries
          THEN [cl EXCEPT !.responses = Append(@, r),
                          !.delays = Append(@, Backoff(Len(cl.delays))),
                          !.requests = Append(@, PostRequest(config, cl.payload))]
          ELSE IF RaisesForStatus(r.status)
          THEN [cl EXCEPT !.pc = "failed", !.responses = Append(@, r),
                          !.result = [ok |-> FALSE, body |-> None,
                                      detail |-> <<"HTTPStatusError", r.status>>]]
          ELSE [cl EXCEPT !.pc = "emitting", !.responses = Append(@, r)]]
    /\ UNCHANGED <<config, lastUpdate, reconfigs, http_client>>

StreamStatus(c, r) ==
    LET cl == call[c] IN
    /\ cl.pc = "open"
    /\ call' = [call EXCEPT ![c] =
          IF RaisesForStatus(r.status)
          THEN [cl EXCEPT !.pc = "failed", !.responses = Append(@, r),
                          !.result = [ok |-> FALSE, body |-> None,
                                      detail |-> <<"HTTPStatusError", r.status>>]]
          ELSE [cl EXCEPT !.pc = "emitting", !.responses = Append(@, r)]]
    /\ UNCHANGED <<config, lastUpdate, reconfigs, http_client>>

\* One iteration of `async for line in response.aiter_lines()`.
StreamLine(c, line) ==
    LET cl == call[c] IN
    /\ cl.pc = "emitting"
    /\ TotalLines < MaxLines
    /\ call' = [call EXCEPT ![c] =
          IF StartsWith(line, DataPrefix)
          THEN [cl EXCEPT !.lines = Append(@, line),
                          !.delivered = Append(@, Frame(Chunk(line)))]
          ELSE [cl EXCEPT !.lines = Append(@, line)]]
    /\ UNCHANGED <<config, lastUpdate, reconfigs, http_client>>

\* Upstream closes normally: both generators finish, _stream_response adds
\* the terminal frame.
StreamEnd(c) ==
    LET cl == call[c] IN
    /\ cl.pc = "emitting"
    /\ call' = [call EXCEPT ![c] =
                  [cl EXCEPT !.pc = "done", !.delivered = Append(@, DoneFrame),
                             !.result = [ok |-> TRUE, body |-> None,
                                         detail |-> <<>>]]]
    /\ UNCHANGED <<config, lastUpdate, reconfigs, http_client>>

\* The connection fails while connecting or while reading the body: the
\* exception leaves both generators.
StreamTransportError_EmitsDone(c) ==
    LET cl == call[c] IN
    /\ cl.pc \in {"open", "emitting"}
    /\ call' = [call EXCEPT ![c] =
                  [cl EXCEPT !.pc = "failed",
                             !.delivered = Append(@, DoneFrame),
                             !.result = [ok |-> FALSE, body |-> None,
                                         detail |-> <<"TransportError", 0>>]]]
    /\ UNCHANGED <<config, lastUpdate, reconfigs, http_client>>

StreamTransportError(c) ==
    LET cl == call[c] IN
    /\ cl.pc \in {"open", "emitting"}
    /\ call' = [call EXCEPT ![c] =
                  [cl EXCEPT !.pc = "failed",
                             !.result = [ok |-> FALSE, body |-> None,
                                         detail |-> <<"TransportError", 0>>]]]
    /\ UNCHANGED <<config, lastUpdate, reconfigs, http_client>>

\* POST /internal/config.
\* client_host not in ("127.0.0.1", "::1", "localhost")
Denied_UnknownAllowed(host) == host \notin LoopbackHosts \cup {None}

Denied(host) == host \notin LoopbackHosts

\* if body.<field> is not None: config.<FIELD> = body.<field>
Overwrite_IfTruthy(old, new) == IF new # None /\ new # "" THEN new ELSE old

Overwrite(old, new) == IF new # None THEN new ELSE old

Updated(body) ==
    (IF body.llm_api_key # None THEN <<"LLM_API_KEY">> ELSE <<>>)
    \o (IF body.llm_backend_url # None THEN <<"LLM_BACKEND_URL">> ELSE <<>>)
    \o (IF body.model_name # None THEN <<"MODEL_NAME">> ELSE <<>>)

UpdateConfig(host, body) ==
    /\ reconfigs < MaxReconfigs
    /\ reconfigs' = reconfigs + 1
    /\ IF Denied(host)
       THEN /\ lastUpdate' = [host |-> host, body |-> body, before |-> config,
                              status |-> 403, updated |-> <<>>]
            /\ UNCHANGED config
       ELSE /\ config' =
                  [LLM_API_KEY |-> Overwrite(config.LLM_API_KEY, body.llm_api_key),
                   LLM_BACKEND_URL |->
                       Overwrite(config.LLM_BACKEND_URL, body.llm_backend_url),
                   MODEL_NAME |-> Overwrite(config.MODEL_NAME, body.model_name)]
            /\ lastUpdate' = [host |-> host, body |-> body, before |-> config,
                              status |-> 200, updated |-> Updated(body)]
    /\ UNCHANGED <<call, http_client>>

\* ---------------------------------------------------------- specifications
Next ==
    \/ \E c \in Calls, m \in RequestModels :
           CreateChatCompletion(c, m, NoTools, None)
    \/ \E c \in Calls : CreateVisionCompletion(c, None)
    \/ \E c \in Calls, r \in UpstreamResponses : ChatResponse(c, r)
    \/ \E c \in Calls : ChatTransportError(c)
    \/ \E c \in Calls : ChatRetry(c)
    \/ \E body \in ConcurrentUpdates : UpdateConfig("127.0.0.1", body)

\* Non-streaming forwarding calls (chat and vision) under reconfiguration.
Spec == Init /\ [][Next]_vars

\* Streaming calls share no state with each other: one is followed.
StreamCalls == {1}

NextStream ==
    \/ \E c \in StreamCalls, m \in RequestModels :
           CreateChatCompletionStream(c, m, NoTools, None)
    \/ \E c \in StreamCalls : StreamOpen(c)
    \/ \E c \in StreamCalls, r \in UpstreamHeads : StreamStatus(c, r)
    \/ \E c \in StreamCalls, line \in UpstreamLines : StreamLine(c, line)
    \/ \E c \in StreamCalls : StreamEnd(c)
    \/ \E c \in StreamCalls : StreamTransportError(c)
    \/ \E body \in ConcurrentUpdates : UpdateConfig("127.0.0.1", body)

\* A streaming forwarding call under reconfiguration.
SpecStream == Init /\ [][NextStream]_vars

\* The JSON body of POST /internal/config before it is validated against
\* InternalConfigUpdate: each member is null (or absent), a string, or a value
\* that is no string (here a JSON object).
JsonNull == [json |-> "null", str |-> None]
JsonString(s) == [json |-> "string", str |-> s]
JsonObject == [json |-> "object", str |-> None]

RawConfigUpdate ==
    [llm_api_key : {JsonNull, JsonObject} \cup {JsonString(s) : s \in ApiKeys},
     llm_backend_url :
         {JsonNull, JsonObject} \cup {JsonString(s) : s \in BackendUrls},
     model_name : {JsonNull, JsonObject} \cup {JsonString(s) : s \in ModelNames}]

\* Every member fits its declared type str | None.
Validates(raw) ==
    \A f \in DOMAIN raw : raw[f].json \in {"null", "string"}

ParsedBody(raw) == [f \in DOMAIN raw |-> raw[f].str]

\* POST /internal/config as the application serves it: the body parameter is
\* validated when the route resolves its parameters, before update_config
\* runs; a body that does not validate is answered 422 and update_config is
\* not called.
PostInternalConfig(host, raw) ==
    IF Validates(raw)
    THEN UpdateConfig(host, ParsedBody(raw))
    ELSE /\ reconfigs < MaxReconfigs
         /\ reconfigs' = reconfigs + 1
         /\ lastUpdate' = [host |-> host, body |-> NoUpdate.body,
                            before |-> config, status |-> 422,
                            updated |-> <<>>]
         /\ UNCHANGED <<config, call, http_client>>

NextValidate ==
    \E host \in ClientHosts, raw \in RawConfigUpdate :
        PostInternalConfig(host, raw)

\* The reconfiguration channel over every origin and every JSON body,
\* well-formed or not.
SpecValidate == Init /\ [][NextValidate]_vars

NextConfig ==
    \E host \in ClientHosts, body \in InternalConfigUpdate :
        UpdateConfig(host, body)

\* The reconfiguration channel alone, over every origin and payload.
SpecConfig == Init /\ [][NextConfig]_vars

\* One forwarding call is followed over every request it may carry.
OneCall == {1}

NextTools ==
    \/ \E c \in OneCall, m \in RequestModels, t \in RequestTools,
          tc \in ToolChoices : CreateChatCompletion(c, m, t, tc)
    \/ \E c \in OneCall, r \in UpstreamResponses : ChatResponse(c, r)
    \/ \E c \in OneCall : ChatTransportError(c)
    \/ \E c \in OneCall : ChatRetry(c)
    \/ \E c \in OneCall, m \in RequestModels, t \in RequestTools,
          tc \in ToolChoices : CreateChatCompletionStream(c, m, t, tc)
    \/ \E c \in OneCall : StreamOpen(c)
    \/ \E c \in OneCall, r \in UpstreamHeads : StreamStatus(c, r)
    \/ \E c \in OneCall, line \in UpstreamLines : StreamLine(c, line)
    \/ \E c \in OneCall : StreamEnd(c)
    \/ \E c \in OneCall : StreamTransportError(c)
    \/ \E body \in ConcurrentUpdates : UpdateConfig("127.0.0.1", body)

\* One chat request, streaming or not, with or without tools, under
\* reconfiguration.
SpecTools == Init /\ [][NextTools]_vars

\* A step taken by the event loop for a running chat_completion call: the
\* awaited client.post returns or raises, or the awaited asyncio.sleep returns.
ChatStep ==
    \/ \E c \in OneCall, r \in UpstreamResponses : ChatResponse(c, r)
    \/ \E c \in OneCall : ChatTransportError(c)
    \/ \E c \in OneCall : ChatRetry(c)

NextLive ==
    \/ \E c \in OneCall, m \in RequestModels :
           CreateChatCompletion(c, m, NoTools, None)
    \/ \E c \in OneCall, m \in RequestModels : CreateVisionCompletion(c, m)
    \/ ChatStep
    \/ \E body \in ConcurrentUpdates : UpdateConfig("127.0.0.1", body)

\* One non-streaming call whose awaits all complete: every upstream request
\* returns (or raises) and every sleep ends.
SpecLive == Init /\ [][NextLive]_vars /\ WF_vars(ChatStep)

NextAudio ==
    \/ \E c \in OneCall, audio_data \in AudioData :
           CreateAudioTranscriptionBase64(c, audio_data)
    \/ \E c \in OneCall, r \in UpstreamResponses : TranscriptionResponse(c, r)
    \/ \E c \in OneCall : TranscriptionTransportError(c)

\* One base64 transcription call over every audio_data string.
SpecAudio == Init /\ [][NextAudio]_vars

\* ------------------------------------------------------------------ claims
\* Calls that run chat_completion (both non-streaming endpoints).
IsChatCompletion(c) == call[c].kind \in {"chat", "vision"}

Statuses(c) == [i \in 1 .. Len(call[c].responses) |-> call[c].responses[i].status]

Is2xx(status) == status \in 200 .. 299

\* C1: a non-streaming chat_completion call whose upstream answered 400, 400
\* and then a 2xx has returned the body of the third answer to its caller,
\* after exactly two backoff delays, 0.5 s and then 1.0 s.
C1_RetryThenSuccess ==
    \A c \in Calls :
        ( /\ IsChatCompletion(c)
          /\ Len(call[c].responses) = 3
          /\ call[c].responses[1].status = 400
          /\ call[c].responses[2].status = 400
          /\ Is2xx(call[c].responses[3].status) )
        => /\ call[c].pc = "done"
           /\ call[c].http = 200
           /\ call[c].result.ok
           /\ call[c].result.body = call[c].responses[3].body
           /\ call[c].delays = <<500, 1000>>
           /\ Len(call[c].requests) = 3

C1_Witness ==
    \E c \in Calls :
        /\ call[c].kind = "chat"
        /\ Statuses(c) = <<400, 400, 200>>
        /\ call[c].result.body = "b2"

\* C2: a non-streaming chat_completion call whose upstream answered 400 three
\* times has ended in a failure, and no call ever issues a fourth request.
C2_ThreeTimes400Fails ==
    \A c \in Calls :
        IsChatCompletion(c) =>
            /\ Len(call[c].requests) <= 3
            /\ Statuses(c) = <<400, 400, 400>>
               => /\ call[c].pc = "done"
                  /\ ~call[c].result.ok
                  /\ call[c].http = 502
                  /\ Len(call[c].requests) = 3

C2_Witness ==
    \E c \in Calls :
        /\ call[c].kind = "chat"
        /\ Statuses(c) = <<400, 400, 400>>
        /\ call[c].pc = "done"
        /\ TotalRequests < MaxRequests

\* C3: a non-2xx answer other than 400 ends a non-streaming chat_completion
\* call at that attempt: it is the last answer the call takes, the call has
\* failed, and no request and no backoff delay follows it.
C3_OtherStatusFailsAtOnce ==
    \A c \in Calls :
        IsChatCompletion(c) =>
            \A i \in 1 .. Len(call[c].responses) :
                ( ~Is2xx(call[c].responses[i].status)
                  /\ call[c].responses[i].status # 400 )
                => /\ i = Len(call[c].responses)
                   /\ call[c].pc = "done"
                   /\ ~call[c].result.ok
                   /\ call[c].http = 502
                   /\ Len(call[c].requests) = i
                   /\ Len(call[c].delays) = i - 1

C3_Witness ==
    \E c \in Calls :
        /\ call[c].kind = "chat"
        /\ Statuses(c) = <<500>>
        /\ Len(call[c].requests) = 1
        /\ TotalRequests < MaxRequests

\* C4 (as claimed): every upstream request of a forwarding call carries the
\* API key of the configuration the call captured when it started.
C4_OldKeyOnEveryRequest ==
    \A c \in Calls :
        \A i \in 1 .. Len(call[c].requests) :
            call[c].requests[i].headers =
                IF call[c].entry.LLM_API_KEY = ""
                THEN [ContentType |-> "application/json"]
                ELSE [ContentType |-> "application/json",
                      Authorization |-> <<"Bearer ", call[c].entry.LLM_API_KEY>>]

\* C10 (as claimed): a vision completion answered with 400 makes one upstream
\* request, waits for no backoff, and fails.
C10_VisionNeverRetries ==
    \A c \in Calls :
        ( /\ call[c].kind = "vision"
          /\ Len(call[c].responses) >= 1
          /\ call[c].responses[1].status = 400 )
        => /\ Len(call[c].requests) = 1
           /\ call[c].delays = <<>>
           /\ call[c].pc = "done"
           /\ ~call[c].result.ok

\* C10 (amended): the vision path runs the retry loop of chat_completion: a
\* 400 on attempt 1 or 2 is followed by a backoff of 0.5 s times the attempt
\* number and, once the call resumes, by one more request; a 400 is a
\* failure only on attempt 3.
C10_VisionRetriesLikeChat ==
    \A c \in Calls :
        call[c].kind = "vision" =>
            /\ \A i \in 1 .. Len(call[c].responses) :
                   (call[c].responses[i].status = 400 /\ i <= 2)
                   => /\ Len(call[c].delays) >= i
                      /\ call[c].delays[i] = 500 * i
                      /\ call[c].pc \in {"awaiting", "done"}
                         => Len(call[c].requests) >= i + 1
            /\ ( /\ call[c].pc = "done"
                 /\ ~call[c].result.ok
                 /\ call[c].result.detail[2] = <<"HTTPStatusError", 400>> )
               => /\ Statuses(c) = <<400, 400, 400>>
                  /\ call[c].http = 502

C10_Witness ==
    \E c \in Calls :
        /\ call[c].kind = "vision"
        /\ Statuses(c) = <<400, 400, 400>>
        /\ call[c].delays = <<500, 1000>>
        /\ call[c].http = 502

\* What an SSE consumer reads out of one frame "data: <payload>\n\n".
EventOf(frame) == SubSeq(frame, 7, Len(frame) - 2)

Events(c) == [i \in 1 .. Len(call[c].delivered) |-> EventOf(call[c].delivered[i])]

IsDataLine(line) ==
    /\ Len(line) >= 6
    /\ <<line[1], line[2], line[3], line[4], line[5], line[6]>>
           = <<"d", "a", "t", "a", ":", " ">>

RECURSIVE DataPayloads(_)
DataPayloads(lines) ==
    IF lines = <<>> THEN <<>>
    ELSE LET rest == DataPayloads(Tail(lines))
             line == Head(lines) IN
         IF IsDataLine(line)
         THEN <<[i \in 1 .. Len(line) - 6 |-> line[i + 6]]>> \o rest
         ELSE rest

DoneMarker == <<"[", "D", "O", "N", "E", "]">>

\* C5: when upstream answered a streaming request with a 2xx and then closed
\* normally, the events delivered to the caller are the payloads of the
\* upstream lines that start with "data: ", in upstream order, followed by
\* the one terminal marker [DONE].
C5_StreamIsDataPayloadsThenDone ==
    \A c \in Calls :
        (call[c].kind = "stream" /\ call[c].pc = "done")
        => /\ Events(c) = DataPayloads(call[c].lines) \o <<DoneMarker>>
           /\ \A i \in 1 .. Len(call[c].delivered) :
                  call[c].delivered[i]
                      = <<"d", "a", "t", "a", ":", " ">> \o Events(c)[i]
                            \o <<"\n", "\n">>

C5_Witness ==
    \E c \in Calls :
        /\ call[c].pc = "done"
        /\ call[c].lines = <<LineDataA, LineComment, LineDataB>>
        /\ Events(c) = << <<"A">>, <<"B">>, DoneMarker >>

\* C6: when the connection of a streaming request fails after the 2xx head,
\* the caller has received exactly the payloads of the data lines read
\* before the failure, without the terminal marker, and the stream has
\* failed.
C6_MidStreamErrorHasNoDone ==
    \A c \in Calls :
        ( /\ call[c].kind = "stream"
          /\ call[c].pc = "failed"
          /\ Len(call[c].responses) = 1
          /\ Is2xx(call[c].responses[1].status) )
        => /\ Events(c) = DataPayloads(call[c].lines)
           /\ ~call[c].result.ok

C6_Witness ==
    \E c \in Calls :
        /\ call[c].pc = "failed"
        /\ call[c].lines = <<LineDataA>>
        /\ Events(c) = << <<"A">> >>

\* C7 (as claimed): a chat-completion request that has failed before any
\* event was delivered has been answered with HTTP 502, a streaming request
\* whose upstream answered with a non-2xx status included.
C7_EarlyFailureIs502 ==
    \A c \in Calls :
        ( /\ call[c].kind \in {"chat", "stream"}
          /\ call[c].pc \in {"done", "failed"}
          /\ ~call[c].result.ok
          /\ call[c].delivered = <<>> )
        => /\ call[c].http = 502
           /\ call[c].kind = "stream" => call[c].pc = "failed"

FromLoopback == lastUpdate.host \in {"127.0.0.1", "::1", "localhost"}

Answered == lastUpdate.status # 0

\* C8: a reconfiguration request from a non-loopback or unknown origin is
\* answered with 403 and leaves the API key, the base URL and the default
\* model as they were, whatever the payload carries.
C8_NonLoopbackDeniedUnchanged ==
    (Answered /\ ~FromLoopback)
    => /\ lastUpdate.status = 403
       /\ config = lastUpdate.before
       /\ lastUpdate.updated = <<>>

C8_Witness ==
    /\ lastUpdate.host = None
    /\ lastUpdate.status = 403
    /\ lastUpdate.body =
           [llm_api_key |-> "k2", llm_backend_url |-> "u2", model_name |-> "m2"]
    /\ config = DefaultConfig

\* The field of the request that goes with each configuration field.
Given(field) ==
    CASE field = "LLM_API_KEY" -> lastUpdate.body.llm_api_key
      [] field = "LLM_BACKEND_URL" -> lastUpdate.body.llm_backend_url
      [] field = "MODEL_NAME" -> lastUpdate.body.model_name

ConfigFields == {"LLM_API_KEY", "LLM_BACKEND_URL", "MODEL_NAME"}

Named == {lastUpdate.updated[i] : i \in 1 .. Len(lastUpdate.updated)}

\* Every present field is overwritten, every absent field is kept.
OverwritesPresentOnly ==
    \A f \in ConfigFields :
        config[f] = IF Given(f) = None THEN lastUpdate.before[f] ELSE Given(f)

\* C9 (as claimed): a loopback reconfiguration overwrites exactly the present
\* fields, and 'updated' names the fields whose value actually changed.
C9_UpdatedNamesChangedFields ==
    (Answered /\ FromLoopback)
    => /\ lastUpdate.status = 200
       /\ OverwritesPresentOnly
       /\ Named = {f \in ConfigFields : config[f] # lastUpdate.before[f]}

\* C9 (amended): a loopback reconfiguration overwrites exactly the present
\* fields, and 'updated' names the fields present in the request, each once,
\* in the order API key, base URL, model name, also when the value written
\* equals the old one.
C9_UpdatedNamesPresentFields ==
    (Answered /\ FromLoopback)
    => /\ lastUpdate.status = 200
       /\ OverwritesPresentOnly
       /\ Named = {f \in ConfigFields : Given(f) # None}
       /\ lastUpdate.updated =
              SelectSeq(<<"LLM_API_KEY", "LLM_BACKEND_URL", "MODEL_NAME">>,
                        LAMBDA f : Given(f) # None)

C9_Witness ==
    /\ lastUpdate.host = "::1"
    /\ lastUpdate.body =
           [llm_api_key |-> "k1", llm_backend_url |-> None, model_name |-> "m2"]
    /\ lastUpdate.updated = <<"LLM_API_KEY", "MODEL_NAME">>
    /\ config = [LLM_API_KEY |-> "k1", LLM_BACKEND_URL |-> "u1", MODEL_NAME |-> "m2"]

\* C11: a streaming chat request is never retried: once its generator has
\* run it has issued exactly one upstream request, whatever upstream
\* answered and wherever the stream failed, and it never waits for a backoff.
C11_StreamNeverRetried ==
    \A c \in Calls :
        call[c].kind = "stream" =>
            /\ call[c].delays = <<>>
            /\ Len(call[c].responses) <= 1
            /\ Len(call[c].requests) =
                   IF call[c].pc = "created" THEN 0 ELSE 1

C11_Witness ==
    \E c \in Calls :
        /\ call[c].kind = "stream"
        /\ call[c].pc = "failed"
        /\ Statuses(c) = <<400>>
        /\ Len(call[c].requests) = 1
        /\ TotalRequests < MaxRequests

\* C14: a non-streaming chat request whose first upstream answer is a 2xx
\* has returned that answer's body unchanged to its caller, after exactly
\* one upstream request and no backoff delay.
C14_FirstAttemptSuccess ==
    \A c \in Calls :
        ( /\ call[c].kind = "chat"
          /\ Len(call[c].responses) >= 1
          /\ Is2xx(call[c].responses[1].status) )
        => /\ call[c].pc = "done"
           /\ call[c].http = 200
           /\ call[c].result = [ok |-> TRUE, body |-> call[c].responses[1].body,
                                detail |-> <<>>]
           /\ Len(call[c].responses) = 1
           /\ Len(call[c].requests) = 1
           /\ call[c].delays = <<>>

C14_Witness ==
    \E c \in Calls :
        /\ call[c].kind = "chat"
        /\ Statuses(c) = <<200>>
        /\ call[c].result.body = "b2"
        /\ call[c].http = 200

\* The request of call c carries a non-empty tools list.
CarriesTools(c) == call[c].tools.present /\ call[c].tools.items # <<>>

\* The payload call c sends has the tools of its request, and its tool_choice
\* or "auto", exactly when the request carries tools.
PayloadHasRequestTools(c) ==
    LET payload == call[c].payload IN
    /\ ("tools" \in DOMAIN payload) = CarriesTools(c)
    /\ ("tool_choice" \in DOMAIN payload) = CarriesTools(c)
    /\ CarriesTools(c)
       => /\ payload.tools = call[c].tools.items
          /\ payload.tool_choice =
                 IF call[c].tool_choice \in {None, ""}
                 THEN "auto" ELSE call[c].tool_choice

\* C16 (as claimed): the upstream payload of every chat request, streaming
\* or not, contains tools and tool_choice exactly when the request carries a
\* non-empty tools list, with the request's tools and its tool_choice or
\* "auto".
C16_PayloadToolsIffRequestTools ==
    \A c \in Calls :
        (call[c].kind \in {"chat", "stream"} /\ call[c].requests # <<>>)
        => /\ PayloadHasRequestTools(c)
           /\ \A i \in 1 .. Len(call[c].requests) :
                  call[c].requests[i].json = call[c].payload

\* The same for the non-streaming requests alone.
C16_NonStreamingOnly ==
    \A c \in Calls :
        (call[c].kind = "chat" /\ call[c].requests # <<>>)
        => PayloadHasRequestTools(c)

\* C17: every upstream attempt of one chat_completion call sends the payload
\* the call built when it started (model, messages, temperature, max_tokens,
\* stream, tools, tool_choice), also when the default model is reconfigured
\* between the attempts.
C17_SamePayloadOnEveryAttempt ==
    \A c \in Calls :
        IsChatCompletion(c) =>
            \A i \in 1 .. Len(call[c].requests) :
                /\ call[c].requests[i].json = call[c].requests[1].json
                /\ call[c].requests[i].json.model =
                       IF call[c].model # None THEN call[c].model
                       ELSE call[c].entry.MODEL_NAME

C17_Witness ==
    \E c \in Calls :
        /\ call[c].kind = "chat"
        /\ call[c].model = None
        /\ Len(call[c].requests) = 3
        /\ call[c].requests[1].url # call[c].requests[2].url
        /\ call[c].requests[3].json.model = "m1"
        /\ config.MODEL_NAME = "m2"
        /\ CarriesTools(c)
        /\ "tools" \in DOMAIN call[c].requests[3].json
        /\ call[c].requests[3].json.tools = <<"t1">>

\* The versions BackendConfig has gone through (the startup values, the
\* values before the last reconfiguration, the current values).
ConfigVersions == {DefaultConfig, lastUpdate.before, config} \ {NoConfig}

\* Request rq carries the base URL and the API key of version v.
UrlAndKeyOf(rq, v) ==
    /\ rq.url = <<v.LLM_BACKEND_URL, "/chat/completions">>
    /\ rq.headers =
           IF v.LLM_API_KEY = ""
           THEN [ContentType |-> "application/json"]
           ELSE [ContentType |-> "application/json",
                 Authorization |-> <<"Bearer ", v.LLM_API_KEY>>]

\* C15 (as claimed): every upstream request takes its default model, its
\* base URL and its API key from one and the same version of BackendConfig.
C15_RequestFromOneVersion ==
    \A c \in Calls :
        \A i \in 1 .. Len(call[c].requests) :
            \E v \in ConfigVersions :
                /\ UrlAndKeyOf(call[c].requests[i], v)
                /\ call[c].model = None
                   => call[c].requests[i].json.model = v.MODEL_NAME

\* C20: no upstream request pairs the base URL of one side of a
\* reconfiguration with the API key of the other side: the URL and the key of
\* every request belong to one version of BackendConfig.
C20_UrlAndKeyFromOneVersion ==
    \A c \in Calls :
        \A i \in 1 .. Len(call[c].requests) :
            \E v \in ConfigVersions : UrlAndKeyOf(call[c].requests[i], v)

C20_Witness ==
    \E c \in Calls :
        /\ Len(call[c].requests) >= 2
        /\ UrlAndKeyOf(call[c].requests[1], DefaultConfig)
        /\ lastUpdate.status = 200
        /\ lastUpdate.updated = <<"LLM_API_KEY", "LLM_BACKEND_URL", "MODEL_NAME">>
        /\ config # DefaultConfig
        /\ UrlAndKeyOf(call[c].requests[2], config)

Running(c) == call[c].pc \in {"awaiting", "sleeping"}

AttemptsAndDelays(c) ==
    /\ Len(call[c].requests) \in 1 .. 3
    /\ \A i \in 1 .. Len(call[c].delays) :
           /\ i <= Len(call[c].responses)
           /\ call[c].responses[i].status = 400
    /\ call[c].pc = "done" =>
           /\ Len(call[c].delays) = Len(call[c].requests) - 1
           /\ ~call[c].result.ok =>
                  call[c].result.detail[2][1] # "Max retries exceeded"

\* C19: when every awaited request and sleep completes, a non-streaming
\* chat_completion call terminates; it makes between 1 and 3 upstream
\* attempts, ends with one backoff delay fewer than attempts, each delay
\* following a 400 answer, and never fails with "Max retries exceeded".
C19_TerminatesWithinThreeAttempts ==
    /\ [](\A c \in Calls : IsChatCompletion(c) => AttemptsAndDelays(c))
    /\ \A c \in Calls : Running(c) ~> (call[c].pc = "done")

C19_Witness ==
    \E c \in Calls :
        /\ IsChatCompletion(c)
        /\ call[c].pc = "done"
        /\ Len(call[c].requests) = max_retries + 1
        /\ Len(call[c].delays) = max_retries
        /\ Statuses(c) = <<400, 400, 400>>
        /\ call[c].result.detail[2] = <<"HTTPStatusError", 400>>

\* C18 (as claimed): a reconfiguration request from a non-loopback origin is
\* answered with access denied whatever its payload, never with a
\* payload-validation error.
C18_AccessCheckedBeforePayload ==
    (lastUpdate.status # 0 /\ lastUpdate.host \notin LoopbackHosts)
    => /\ lastUpdate.status # 422
       /\ lastUpdate.status = 403

\* What the client can tell a failure by: the status and the detail prefix.
ErrorKind(cl) == <<cl.http, cl.result.detail[1]>>

FailsDecoding(c) ==
    /\ call[c].kind = "base64"
    /\ call[c].pc = "done"
    /\ ~b64decode(call[c].audio_data).ok

\* C12 (as claimed): a base64 transcription whose audio_data fails base64
\* decoding has failed without any upstream request, with an error kind
\* that differs from the kind of an upstream error.
C12_DecodeFailureIsClientError ==
    \A c \in Calls :
        FailsDecoding(c)
        => /\ call[c].requests = <<>>
           /\ ~call[c].result.ok
           /\ ErrorKind(call[c]) #
                  ErrorKind(Fail502(call[c], <<"HTTPStatusError", 500>>))

\* The part of C12 that the code keeps: no upstream request is made for
\* audio_data that fails decoding.
C12_NoUpstreamRequest ==
    \A c \in Calls :
        FailsDecoding(c)
        => /\ call[c].requests = <<>>
           /\ call[c].http = 502
           /\ ~call[c].result.ok

InFlight(c) ==
    call[c].pc \in {"awaiting", "sleeping", "open", "streaming", "transcribing"}

\* C13: however forwarding calls interleave, the first acquisition creates
\* the client and every later one returns that same client: no second client
\* is created while the first is open, and every call that has acquired a
\* client holds the one, open, module-level client.
C13_OneSharedClient ==
    /\ (http_client.created > 1 => http_client.is_closed)
    /\ \A c \in Calls :
           (call[c].requests # <<>>) <=> (call[c].client # 0)
    /\ \A c, d \in Calls :
           (InFlight(c) /\ InFlight(d))
           => /\ call[c].client = call[d].client
              /\ call[c].client = http_client.created
              /\ ~http_client.is_closed

C13_Witness ==
    \E c, d \in Calls :
        /\ c # d
        /\ call[c].pc = "awaiting" /\ call[d].pc = "awaiting"
        /\ Len(call[c].requests) = 2
        /\ call[c].client = 1 /\ call[d].client = 1
        /\ http_client = [created |-> 1, is_closed |-> FALSE]

====
